---------------------------- MODULE Spec2Model ----------------------------
(***************************************************************************)
(* ERRAT (liueic/ERRAT-Rust): PDB ingestion (parse_pdb), the spatial grid  *)
(* and the parallel window evaluation (compute_errat, compute_window), the *)
(* discriminant (matrixdb), the sequential aggregation and the report step *)
(* of run, and the batch driver (run_batch of main.rs).                    *)
(*                                                                         *)
(* Units.  Coordinates and lengths are integers in 1/100 Angstrom, contact *)
(* weights and histogram totals in 1/1000, probabilities in 1/10000 and    *)
(* discriminant scores in 1/10000.  The f64 arithmetic of the source is    *)
(* carried out in these fixed-point units.                                 *)
(***************************************************************************)
EXTENDS Integers, Sequences, FiniteSets, TLC

(***************************************************************************)
(* Program constants (src/src/lib.rs:8-16, 1028).                          *)
(***************************************************************************)
SIZE == 250000
BXMX == 200000
CHAINDIF == 10000
BOXSIZE == 400
RADIUS == 375
RADMIN == 325
MAXWIN == 100694
LMT_95 == 115266
LMT_99 == 171908
box_slots == 15
\* min[] and max[] start at +-999.0 (compute_errat)
MINMAX_INIT == 99900
\* 0.00001 Angstrom is 1/EPS_DEN of a coordinate unit
EPS_DEN == 1000

(***************************************************************************)
(* Bounds of the model.                                                    *)
(***************************************************************************)
\* longest file of freely chosen lines
MaxLen == 4
\* longest sequence of window outcomes handed to the reduction on its own
MaxWindows == 4

(***************************************************************************)
(* Small arithmetic helpers.                                               *)
(***************************************************************************)
Min2(a, b) == IF a < b THEN a ELSE b
Max2(a, b) == IF a > b THEN a ELSE b

\* f64 -> i32 `as` cast of a quotient: truncation toward zero
TruncDiv(a, b) == IF a >= 0 THEN a \div b ELSE -((-a) \div b)

\* f64::sqrt, to the integer below (binary search on lo..hi)
RECURSIVE SqrtSearch(_, _, _)
SqrtSearch(n, lo, hi) ==
    IF lo >= hi THEN lo
    ELSE LET mid == (lo + hi + 1) \div 2
         IN IF mid * mid <= n THEN SqrtSearch(n, mid, hi)
                               ELSE SqrtSearch(n, lo, mid - 1)
ISqrt(n) == SqrtSearch(n, 0, 4000)

\* the i32 whose bit pattern has the 16-bit halves h (high) and l (low)
FromHalves(h, l) == (IF h >= 32768 THEN h - 65536 ELSE h) * 65536 + l

\* i32 product a * b for 0 <= a and 0 <= b < 2^15 (cell counts and cell
\* coordinates): the value a build without overflow checks computes
\* (wrapping), and whether the product leaves the i32 range (where a build
\* with overflow checks panics)
Mul32(a, b) ==
    LET lo == (a % 65536) * b
        hi == (a \div 65536) * b + lo \div 65536
    IN  [value |-> FromHalves(hi % 65536, lo % 65536), overflow |-> hi >= 32768]

\* i32 sum a + b, likewise
Add32(a, b) ==
    IF a >= 0 /\ b > 2147483647 - a
    THEN [value |-> ((a - 2147483647) - 1) + ((b - 2147483647) - 1), overflow |-> TRUE]
    ELSE IF a < 0 /\ b < (-2147483647 - 1) - a
    THEN [value |-> ((a + 2147483647) + 1) + ((b + 2147483647) + 1), overflow |-> TRUE]
    ELSE [value |-> a + b, overflow |-> FALSE]

(***************************************************************************)
(* Input lines.  A line is what one read_line call returns: its kind (the  *)
(* first six bytes are "ATOM  " or not), the number of bytes before the    *)
(* line terminator, the terminator, and the fixed columns of an ATOM       *)
(* record: atom name (cols 13..15), altLoc (col 16), resName (17..19),     *)
(* chain (21), resSeq (22..25) and x, y, z (30..53) as the numbers written *)
(* in them.                                                                *)
(***************************************************************************)
Line(kind, len, eol, an, alt, res, ch, seq, x, y, z) ==
    [kind |-> kind, len |-> len, eol |-> eol, atomName |-> an, altLoc |-> alt,
     resName |-> res, chain |-> ch, resSeq |-> seq, x |-> x, y |-> y, z |-> z]

N_ == <<"N", " ", " ">>
C_ == <<"C", " ", " ">>
O_ == <<"O", " ", " ">>
CA == <<"C", "A", " ">>

Atom(an, alt, res, ch, seq, x, y, z) ==
    Line("ATOM", 80, "LF", an, alt, res, ch, seq, x, y, z)

(***************************************************************************)
(* State.                                                                  *)
(***************************************************************************)
VARIABLES
    config,        \* Config: output_pdf, and the build profile (overflow checks)
    file,          \* the input PDB file (its description, see LineAt)
    pos,           \* number of lines already consumed by read_line
    pc,            \* position of run: parse, build, map, reduce, summary, report, done, panic
    i,             \* parse_pdb: current atom slot (usize; a wrapped value is negative here)
    kadd,          \* parse_pdb: chain counter
    flag2,         \* parse_pdb: residue number decreased
    data,          \* AtomData: atmnum and the per-atom arrays, errat
    log,           \* lines written to the log file, in order
    grid,          \* compute_errat: min, max, nbx, box_count, ibox_counts, ibox_atoms, flag2
    window_starts, \* compute_errat: the starts handed to the parallel map
    results,       \* collected outcome per position of window_starts
    ridx,          \* sequential reduction: next position of results
    stats,         \* stat, pstat, mtrxstat, errat of compute_errat
    plot,          \* what was written to the plot file
    arg,           \* argument of a function examined on its own (matrixdb)
    ret            \* what that function returned

vars == <<config, file, pos, pc, i, kadd, flag2, data, log, grid,
          window_starts, results, ridx, stats, plot, arg, ret>>

(***************************************************************************)
(* parse_pdb (lib.rs:335-493).                                             *)
(***************************************************************************)
EolBytes(eol) == IF eol = "CRLF" THEN 2 ELSE IF eol = "LF" THEN 1 ELSE 0

\* bytes.len() of the line read_line returned (the terminator is kept)
BytesLen(L) == L.len + EolBytes(L.eol)

\* name[i] from bytes[13]
NameClass(an) ==
    IF an[1] = "C" THEN 1 ELSE IF an[1] = "N" THEN 2 ELSE IF an[1] = "O" THEN 3 ELSE 0

\* bnam[i] from bytes[13..16]
BackboneFlag(an) == IF an = <<"N", " ", " ">> \/ an = <<"C", " ", " ">> THEN 1 ELSE 0

AltLocAllowed(alt) == alt = " " \/ alt = "A" \/ alt = "a" \/ alt = "P"

is_standard_residue(res_name) ==
    res_name \in {"GLY", "ALA", "VAL", "LEU", "ILE", "TYR", "CYS", "MET", "TRP", "PHE",
                  "HIS", "PRO", "SER", "THR", "LYS", "ARG", "GLU", "ASP", "GLN", "ASN"}

\* `i + 1 > SIZE - 1` on usize: a wrapped i + 1 is a huge number
TooManyAtoms(n) == n + 1 < 0 \/ n + 1 > SIZE - 1

LogEntry(tag, a, b) == [tag |-> tag, a |-> a, b |-> b]

\* the arrays of parse_pdb before the first line (slots 0 .. number of lines + 1)
EmptyData(nslots) ==
    [atmnum |-> 0,
     name |-> [k \in 0..nslots |-> 0],
     bnam |-> [k \in 0..nslots |-> 0],
     chain_id |-> [k \in 0..nslots |-> " "],
     res_seq |-> [k \in 0..nslots |-> 0],
     resnum |-> [k \in 0..nslots |-> 0],
     xyz_x |-> [k \in 0..nslots |-> 0],
     xyz_y |-> [k \in 0..nslots |-> 0],
     xyz_z |-> [k \in 0..nslots |-> 0],
     errat_len |-> SIZE + 8,
     errat |-> << >>]

\* errat[idx] = value, growing the vector when idx is beyond its end
SetErrat(d, idx, value) ==
    [d EXCEPT !.errat_len = IF idx >= @ THEN idx + 1 ELSE @,
              !.errat = [k \in (DOMAIN @) \cup {idx} |-> IF k = idx THEN value ELSE @[k]]]

\* One iteration of the read loop on an ATOM line that passed the ceiling
\* check (lib.rs:372-478).  Yields the locals after the iteration and
\* `panic`: a usize subtraction underflowed with overflow checks on, or the
\* errat index (resnum + 4) as usize is beyond any allocation.
ParseAtomLine(L, i0, kadd0, d0, checks) ==
    LET i1 == i0 + 1
        short == BytesLen(L) < 54
        d1 == [d0 EXCEPT !.name[i1] = NameClass(L.atomName),
                         !.bnam[i1] = BackboneFlag(L.atomName),
                         !.chain_id[i1] = L.chain,
                         !.res_seq[i1] = L.resSeq,
                         !.xyz_x[i1] = L.x,
                         !.xyz_y[i1] = L.y,
                         !.xyz_z[i1] = L.z]
        altBad == ~AltLocAllowed(L.altLoc)
        resBad == ~is_standard_residue(L.resName)
        i2 == IF altBad THEN i1 - 1 ELSE i1
        i3 == IF resBad THEN i2 - 1 ELSE i2
        flag == altBad \/ resBad
        underflow == (altBad /\ i1 = 0) \/ (resBad /\ i2 = 0)
        logA == IF altBad THEN <<LogEntry("RejectAltLoc", i1, 0)>> ELSE << >>
        logR == IF resBad THEN <<LogEntry("RejectResidue", 0, 0)>> ELSE << >>
        newChain == i3 >= 2 /\ ~flag /\ d1.chain_id[i3] # d1.chain_id[i3 - 1]
        kadd1 == IF newChain THEN kadd0 + 1 ELSE kadd0
        logC == IF newChain THEN <<LogEntry("IncrementingChain", kadd1, 0)>> ELSE << >>
        d2 == IF flag THEN d1
              ELSE [d1 EXCEPT !.resnum[i3] = d1.res_seq[i3] + kadd1 * CHAINDIF,
                              !.atmnum = i3]
        sameChain == i3 >= 1 /\ ~flag /\ d2.chain_id[i3] = d2.chain_id[i3 - 1]
        decrease == i3 >= 2 /\ sameChain /\ d2.resnum[i3] < d2.resnum[i3 - 1]
        logD == IF decrease
                THEN <<LogEntry("ResnumDecrease", d2.resnum[i3], d2.resnum[i3 - 1])>>
                ELSE << >>
        missing == i3 > 2 /\ sameChain /\ d2.resnum[i3] # d2.resnum[i3 - 1]
                   /\ d2.resnum[i3] - d2.resnum[i3 - 1] > 1
        logM == IF missing
                THEN <<LogEntry("MissingResidues", d2.resnum[i3 - 1], d2.resnum[i3])>>
                ELSE << >>
        idx == d2.resnum[i3] + 4
        d3 == IF flag \/ idx < 0 THEN d2 ELSE SetErrat(d2, idx, 0)
    IN  IF short
        THEN [i |-> i1 - 1, kadd |-> kadd0, flag2 |-> FALSE, data |-> d0, log |-> << >>,
              panic |-> (i1 = 0 /\ checks)]
        ELSE IF underflow /\ checks
        THEN [i |-> i0, kadd |-> kadd0, flag2 |-> FALSE, data |-> d1, log |-> logA,
              panic |-> TRUE]
        ELSE [i |-> i3, kadd |-> kadd1, flag2 |-> decrease, data |-> d3,
              log |-> logA \o logR \o logC \o logD \o logM,
              panic |-> (~flag /\ idx < 0)]

(***************************************************************************)
(* matrixdb (lib.rs:1695-1769): the quadratic form of the probability      *)
(* vector (1/10000) about the empirical mean; the score is in 1/10000.     *)
(***************************************************************************)
\* b1[1..5][1..5], rounded to integers
B1 == << <<5040, 3409, 4153, 4236, 5055>>,
         <<3409, 8492, 5959, 1521, 4304>>,
         <<4153, 5959, 7637, 6621, 5288>>,
         <<4236, 1521, 6621, 18368, 4051>>,
         <<5055, 4304, 5288, 4051, 6667>> >>

\* avg[1..5] in 1/10000
AVG == <<1928, 1956, 2753, 591, 2332>>

\* faulty variant: the mean is not subtracted
matrixdb_NoMean(matrix) ==
    LET v == [u \in 1..5 |-> matrix[u]]
        c == [j \in 1..5 |->
                v[1] * B1[1][j] + v[2] * B1[2][j] + v[3] * B1[3][j]
                    + v[4] * B1[4][j] + v[5] * B1[5][j]]
        term(k) == TruncDiv(TruncDiv(c[k], 1000) * v[k], 10)
    IN  term(1) + term(2) + term(3) + term(4) + term(5)

matrixdb(matrix) ==
    LET v == [u \in 1..5 |-> matrix[u] - AVG[u]]
        c == [j \in 1..5 |->
                v[1] * B1[1][j] + v[2] * B1[2][j] + v[3] * B1[3][j]
                    + v[4] * B1[4][j] + v[5] * B1[5][j]]
        term(k) == TruncDiv(TruncDiv(c[k], 1000) * v[k], 10)
    IN  term(1) + term(2) + term(3) + term(4) + term(5)

(***************************************************************************)
(* compute_errat, first part (lib.rs:965-1067): bounding box, grid.        *)
(***************************************************************************)
MinOf(arr, n) ==
    LET S == {arr[k] : k \in 1..n} \cup {MINMAX_INIT}
    IN  CHOOSE m \in S : \A x \in S : m <= x

MaxOf(arr, n) ==
    LET S == {arr[k] : k \in 1..n} \cup {-MINMAX_INIT}
    IN  CHOOSE m \in S : \A x \in S : m >= x

\* floor(log2(num / den)) for num, den > 0 (0 otherwise)
RECURSIVE Log2Floor(_, _)
Log2Floor(num, den) ==
    IF num <= 0 \/ den <= 0 THEN 0
    ELSE IF num >= 2 * den THEN Log2Floor(num, 2 * den) + 1
    ELSE IF num < den THEN Log2Floor(2 * num, den) - 1
    ELSE 0

RECURSIVE Pow2(_)
Pow2(k) == IF k <= 0 THEN 1 ELSE 2 * Pow2(k - 1)

\* (m * 2^k) % 100
RECURSIVE ShiftMod100(_, _)
ShiftMod100(m, k) == IF k <= 0 THEN m % 100 ELSE ShiftMod100((2 * m) % 100, k - 1)

\* The f64 a coordinate text of n/100 Angstrom parses to (lib.rs:404-410)
\* is the nearest of the numbers M * 2^(e - 52), M < 2^53.  Its distance
\* from n/100 is s * 2^(e - 52) / 100: s is what (n * 2^(52 - e)) % 100
\* leaves to the nearer end.  A remainder of 50 (a tie) cannot occur.
F64Err(n) ==
    LET Err(sg, e, R) == [s |-> sg * (IF R < 50 THEN -R ELSE 100 - R), e |-> e]
        Scaled(sg, m, e) == Err(sg, e, ShiftMod100(m, 52 - e))
        Signed(sg, m) == Scaled(sg, m, Log2Floor(m, 100))
    IN  IF n = 0 THEN [s |-> 0, e |-> 0]
        ELSE IF n < 0 THEN Signed(-1, -n) ELSE Signed(1, n)

\* The f64 difference max - min of two parsed coordinates whose decimal
\* difference b - a is a positive multiple of BOXSIZE comes out below that
\* multiple: the exact difference of the two f64 lies more than half a
\* spacing below it (at the half, round-to-even gives the multiple).  Half
\* the spacing below T is 2^(h - 52), h one less at a power of two.
SubRoundsBelow(a, b) ==
    LET Below(ea, eb, h, emin) ==
            ea.s * Pow2(ea.e - emin) - eb.s * Pow2(eb.e - emin) > 100 * Pow2(h - emin)
        Half(ea, eb, h) == Below(ea, eb, h, Min2(Min2(ea.e, eb.e), h))
        Spacing(ea, eb, T, eT) ==
            Half(ea, eb, eT - 1 - (IF T = 100 * Pow2(eT) THEN 1 ELSE 0))
    IN  Spacing(F64Err(a), F64Err(b), b - a, Log2Floor(b - a, 100))

\* nbx[i] = ((max[i] - min[i]) / BOXSIZE) as i32 + 1 (lib.rs:1016-1019);
\* the division by 4.0 is exact, the subtraction is rounded
AxisCount(mn, mx) ==
    IF mx > mn /\ (mx - mn) % BOXSIZE = 0 /\ SubRoundsBelow(mn, mx)
    THEN TruncDiv(mx - mn, BOXSIZE)
    ELSE TruncDiv(mx - mn, BOXSIZE) + 1

\* ((coord - (min - 0.00001)) / BOXSIZE).floor() as i32
CellCoord(coord, mn) == ((coord - mn) * EPS_DEN + 1) \div (BOXSIZE * EPS_DEN)

\* ind of atom k (lib.rs:1035-1038), an i32 expression:
\* 1 + ix + iy * nbx[1] + iz * nbx[1] * nbx[2]
CellIndex(d, mn, nbx, k) ==
    LET ix == CellCoord(d.xyz_x[k], mn[1])
        iy == CellCoord(d.xyz_y[k], mn[2])
        iz == CellCoord(d.xyz_z[k], mn[3])
        zpart == Mul32(iz * nbx[1], nbx[2])
        sum == Add32(1 + ix + iy * nbx[1], zpart.value)
    IN  [value |-> sum.value, overflow |-> zpart.overflow \/ sum.overflow]

\* the fill loop (lib.rs:1034-1046): atoms k..n into counts and slots; an
\* ind outside the vectors (negative ones become huge as usize) panics
RECURSIVE FillGrid(_, _, _, _, _, _)
FillGrid(d, mn, nbx, k, counts, slots) ==
    IF k > d.atmnum THEN [ibox_counts |-> counts, ibox_atoms |-> slots, panic |-> FALSE]
    ELSE LET ind == CellIndex(d, mn, nbx, k).value
         IN  IF ind \notin DOMAIN counts
             THEN [ibox_counts |-> counts, ibox_atoms |-> slots, panic |-> TRUE]
             ELSE FillGrid(d, mn, nbx, k + 1,
                           [counts EXCEPT ![ind] = counts[ind] + 1],
                           IF counts[ind] < box_slots
                           THEN [slots EXCEPT ![ind] = Append(@, k)]
                           ELSE slots)

\* faulty variant: the counts of the cells are never compared with the
\* capacity
BuildGridOf_NoCapacityCheck(d) ==
    LET mn == <<MinOf(d.xyz_x, d.atmnum), MinOf(d.xyz_y, d.atmnum), MinOf(d.xyz_z, d.atmnum)>>
        mx == <<MaxOf(d.xyz_x, d.atmnum), MaxOf(d.xyz_y, d.atmnum), MaxOf(d.xyz_z, d.atmnum)>>
        Grid(nbx) ==
            LET product == Mul32(nbx[1] * nbx[2], nbx[3])
                box_count == product.value
                tooMany == box_count > BXMX - 1
                ibox_len == Max2(box_count, 0) + 1
                empty == [ibox_counts |-> [c \in 0..(ibox_len - 1) |-> 0],
                          ibox_atoms |-> [c \in 0..(ibox_len - 1) |-> << >>],
                          panic |-> FALSE]
                filled == IF tooMany
                          THEN [ibox_counts |-> << >>, ibox_atoms |-> << >>, panic |-> FALSE]
                          ELSE FillGrid(d, mn, nbx, 1, empty.ibox_counts, empty.ibox_atoms)
                over == {c \in DOMAIN filled.ibox_counts \ {0} : filled.ibox_counts[c] > 15}
            IN  [min |-> mn, max |-> mx, nbx |-> nbx, box_count |-> box_count,
                 overflow |-> product.overflow,
                 ibox_counts |-> filled.ibox_counts, ibox_atoms |-> filled.ibox_atoms,
                 panic |-> filled.panic,
                 tooMany |-> tooMany, over |-> over,
                 flag2 |-> tooMany]
    IN  Grid([a \in 1..3 |-> AxisCount(mn[a], mx[a])])

\* compute_errat from the bounding box to the capacity check
\* (lib.rs:984-1053).  box_count is the i32 product nbx[1] * nbx[2] * nbx[3]:
\* `overflow` tells that it leaves the i32 range, `panic` that the fill loop
\* indexed outside the vectors.  With too many cells the vectors stay
\* zeroed and are never read (lib.rs:1033, 1061): the model keeps them
\* empty, where the program holds box_count + 1 zeros.
BuildGridOf(d) ==
    LET mn == <<MinOf(d.xyz_x, d.atmnum), MinOf(d.xyz_y, d.atmnum), MinOf(d.xyz_z, d.atmnum)>>
        mx == <<MaxOf(d.xyz_x, d.atmnum), MaxOf(d.xyz_y, d.atmnum), MaxOf(d.xyz_z, d.atmnum)>>
        Grid(nbx) ==
            LET product == Mul32(nbx[1] * nbx[2], nbx[3])
                box_count == product.value
                tooMany == box_count > BXMX - 1
                ibox_len == Max2(box_count, 0) + 1
                empty == [ibox_counts |-> [c \in 0..(ibox_len - 1) |-> 0],
                          ibox_atoms |-> [c \in 0..(ibox_len - 1) |-> << >>],
                          panic |-> FALSE]
                filled == IF tooMany
                          THEN [ibox_counts |-> << >>, ibox_atoms |-> << >>, panic |-> FALSE]
                          ELSE FillGrid(d, mn, nbx, 1, empty.ibox_counts, empty.ibox_atoms)
                over == {c \in DOMAIN filled.ibox_counts \ {0} : filled.ibox_counts[c] > 15}
            IN  [min |-> mn, max |-> mx, nbx |-> nbx, box_count |-> box_count,
                 overflow |-> product.overflow,
                 ibox_counts |-> filled.ibox_counts, ibox_atoms |-> filled.ibox_atoms,
                 panic |-> filled.panic,
                 tooMany |-> tooMany, over |-> over,
                 flag2 |-> (tooMany \/ over # {})]
    IN  Grid([a \in 1..3 |-> AxisCount(mn[a], mx[a])])

\* window_starts (lib.rs:1065-1067), in atom order
RECURSIVE StartsFrom(_, _)
StartsFrom(d, k) ==
    IF k > d.atmnum THEN << >>
    ELSE (IF k = 1 \/ d.resnum[k] > d.resnum[k - 1] THEN <<k>> ELSE << >>)
         \o StartsFrom(d, k + 1)

WindowStarts(d) == StartsFrom(d, 1)

(***************************************************************************)
(* compute_window (lib.rs:824-963).                                        *)
(***************************************************************************)
NoneOutcome == [kind |-> "None", idx |-> 0, mtrx |-> 0]
Pending == [kind |-> "Pending", idx |-> 0, mtrx |-> 0]
Warn(frame) == [kind |-> "Warn", idx |-> frame, mtrx |-> 0]
Value(idx, mtrx) == [kind |-> "Value", idx |-> idx, mtrx |-> mtrx]

\* the forward walk (lib.rs:836-844): <<s, v>> when the loop ends
RECURSIVE WalkForward(_, _, _)
WalkForward(d, s, v) ==
    IF s < 10 /\ v <= d.atmnum
    THEN LET diff == d.resnum[v + 1] - d.resnum[v]
         IN  WalkForward(d, IF (diff < 100 /\ diff > 0) \/ v = d.atmnum THEN s + 1 ELSE s,
                         v + 1)
    ELSE <<s, v>>

\* faulty variant: v is not stepped back after the walk
WindowEnd_NoStepBack(d, i0) == WalkForward(d, 1, i0)

\* <<s, v>> after the walk and the step back (lib.rs:845-847)
WindowEnd(d, i0) ==
    LET w == WalkForward(d, 1, i0)
    IN  <<w[1], IF w[2] > 0 THEN w[2] - 1 ELSE w[2]>>

\* faulty variant: the count of 10 is not required
WindowValid_AnyCount(d, i0) ==
    LET w == WindowEnd(d, i0)
    IN  ~(d.res_seq[w[2]] <= d.res_seq[i0])

WindowValid(d, i0) ==
    LET w == WindowEnd(d, i0)
    IN  ~(w[1] # 10 \/ d.res_seq[w[2]] <= d.res_seq[i0])

\* ndelta = (RADIUS / BOXSIZE).ceil()
ndelta == (RADIUS + BOXSIZE - 1) \div BOXSIZE

CellRange(jb, n) == Max2(jb - ndelta, 0) .. Min2(jb + ndelta, n - 1)

\* the cells visited for probe atom rer (lib.rs:855-893); the loop visits
\* them in increasing ind
ProbeCells(d, g, rer) ==
    {1 + l + k * g.nbx[1] + j * g.nbx[1] * g.nbx[2] :
        l \in CellRange(CellCoord(d.xyz_x[rer], g.min[1]), g.nbx[1]),
        k \in CellRange(CellCoord(d.xyz_y[rer], g.min[2]), g.nbx[2]),
        j \in CellRange(CellCoord(d.xyz_z[rer], g.min[3]), g.nbx[3])}

RECURSIVE ConcatCells(_, _)
ConcatCells(g, cells) ==
    IF cells = {} THEN << >>
    ELSE LET ind == CHOOSE c \in cells : \A c2 \in cells : c <= c2
         IN  SubSeq(g.ibox_atoms[ind], 1, Min2(g.ibox_counts[ind], box_slots))
             \o ConcatCells(g, cells \ {ind})

\* the candidate neighbours n of probe rer, in the order the loops meet them
Candidates(d, g, rer) == ConcatCells(g, ProbeCells(d, g, rer))

DistSq(d, a, b) ==
    LET dx == d.xyz_x[b] - d.xyz_x[a]
        dy == d.xyz_y[b] - d.xyz_y[a]
        dz == d.xyz_z[b] - d.xyz_z[a]
    IN  dx * dx + dy * dy + dz * dz

\* temp1 in 1/1000 (lib.rs:918-922)
Weight(dsq) ==
    IF dsq <= RADMIN * RADMIN THEN 1000 ELSE 2 * (RADIUS * 10 - ISqrt(dsq * 100))

\* faulty variant: only the probe that is the Carbon of residue r is excluded
PeptidePair_ForwardOnly(d, rer, n) ==
    d.bnam[rer] = 1 /\ d.bnam[n] = 1
    /\ d.resnum[n] = d.resnum[rer] + 1 /\ d.name[rer] = 1 /\ d.name[n] = 2

\* the backbone peptide-bond test (lib.rs:906-913)
PeptidePair(d, rer, n) ==
    d.bnam[rer] = 1 /\ d.bnam[n] = 1
    /\ (   (d.resnum[n] = d.resnum[rer] + 1 /\ d.name[rer] = 1 /\ d.name[n] = 2)
        \/ (d.resnum[rer] = d.resnum[n] + 1 /\ d.name[rer] = 2 /\ d.name[n] = 1))

\* faulty variant: a pair inside the window is counted from either probe
Contribution_BothProbes(d, i0, v, rer, n) ==
    IF d.resnum[rer] = d.resnum[n] THEN 0
    ELSE LET dsq == DistSq(d, rer, n)
         IN  IF ~(dsq < RADIUS * RADIUS) THEN 0
             ELSE IF PeptidePair(d, rer, n) THEN 0
             ELSE Weight(dsq)

\* what probe rer and candidate n add to c[name[rer]][name[n]] in the window
\* of atoms i0..v (lib.rs:900-935)
Contribution(d, i0, v, rer, n) ==
    IF d.resnum[rer] = d.resnum[n] THEN 0
    ELSE LET dsq == DistSq(d, rer, n)
         IN  IF ~(dsq < RADIUS * RADIUS) THEN 0
             ELSE IF PeptidePair(d, rer, n) THEN 0
             ELSE IF n >= i0 /\ n <= v
                  THEN (IF d.resnum[rer] > d.resnum[n] THEN Weight(dsq) ELSE 0)
                  ELSE Weight(dsq)

\* the inner loop over the candidates cands[k..] of probe rer: what it adds
\* to the row c[name[rer]], as <<to c[.][0], .., to c[.][3]>>
RECURSIVE RowOfProbe(_, _, _, _, _, _)
RowOfProbe(d, i0, v, rer, cands, k) ==
    IF k > Len(cands) THEN <<0, 0, 0, 0>>
    ELSE LET n == cands[k]
             w == Contribution(d, i0, v, rer, n)
             rest == RowOfProbe(d, i0, v, rer, cands, k + 1)
         IN  IF w = 0 THEN rest ELSE [rest EXCEPT ![d.name[n] + 1] = @ + w]

\* the loop over the probes rer..v (lib.rs:854-940): the histogram, row q
\* at position q + 1
RECURSIVE RowsOfProbes(_, _, _, _, _)
RowsOfProbes(d, g, i0, v, rer) ==
    IF rer > v THEN <<<<0, 0, 0, 0>>, <<0, 0, 0, 0>>, <<0, 0, 0, 0>>, <<0, 0, 0, 0>>>>
    ELSE LET row == RowOfProbe(d, i0, v, rer, Candidates(d, g, rer), 1)
             rest == RowsOfProbes(d, g, i0, v, rer + 1)
         IN  [rest EXCEPT ![d.name[rer] + 1] =
                 <<@[1] + row[1], @[2] + row[2], @[3] + row[3], @[4] + row[4]>>]

\* the histogram c[q][r] of the window i0..v
Histogram(d, g, i0, v) ==
    LET rows == RowsOfProbes(d, g, i0, v, i0)
    IN  [q \in 0..3 |-> [r \in 0..3 |-> rows[q + 1][r + 1]]]

\* c / temp2 as a probability in 1/10000
Ratio(c, temp2) == (c * 1000) \div Max2(temp2 \div 10, 1)

\* faulty variant: a total equal to MAXWIN is scored
ScoreWindow_AtLeast(d, i0, c) ==
    LET temp2 == c[1][1] + c[1][2] + c[1][3] + c[2][1] + c[2][2] + c[2][3]
                 + c[3][1] + c[3][2] + c[3][3]
        matrix == <<Ratio(c[1][1], temp2),
                    Ratio(c[1][2] + c[2][1], temp2),
                    Ratio(c[1][3] + c[3][1], temp2),
                    Ratio(c[2][2], temp2),
                    Ratio(c[2][3] + c[3][2], temp2)>>
    IN  IF temp2 >= MAXWIN
        THEN Value(d.resnum[i0] + 4, matrixdb(matrix))
        ELSE Warn(d.resnum[i0] + 4)

\* the scoring of a histogram (lib.rs:942-962)
ScoreWindow(d, i0, c) ==
    LET temp2 == c[1][1] + c[1][2] + c[1][3] + c[2][1] + c[2][2] + c[2][3]
                 + c[3][1] + c[3][2] + c[3][3]
        matrix == <<Ratio(c[1][1], temp2),
                    Ratio(c[1][2] + c[2][1], temp2),
                    Ratio(c[1][3] + c[3][1], temp2),
                    Ratio(c[2][2], temp2),
                    Ratio(c[2][3] + c[3][2], temp2)>>
    IN  IF temp2 > MAXWIN
        THEN Value(d.resnum[i0] + 4, matrixdb(matrix))
        ELSE Warn(d.resnum[i0] + 4)

compute_window(d, g, i0) ==
    IF ~WindowValid(d, i0) THEN NoneOutcome
    ELSE ScoreWindow(d, i0, Histogram(d, g, i0, WindowEnd(d, i0)[2]))

(***************************************************************************)
(* Input files of the model.  A file is a densely packed body (possibly    *)
(* empty) followed by a tail of freely chosen lines; the state holds its   *)
(* description and LineAt yields its lines.                                *)
(***************************************************************************)
\* the lines a tail is composed of, by name
LineOf(id) ==
    CASE id = "A1" -> Atom(CA, " ", "ALA", "A", 1, 0, 0, 0)
      [] id = "A2" -> Atom(N_, "A", "GLY", "A", 2, 100, 0, 0)
      [] id = "A5" -> Atom(O_, " ", "SER", "A", 5, 200, 100, 0)
      [] id = "B1" -> Atom(C_, " ", "ALA", "B", 1, 200, 0, 0)
      [] id = "alt" -> Atom(CA, "B", "ALA", "A", 3, 300, 0, 0)
      [] id = "res" -> Atom(O_, " ", "MSE", "B", 7, 300, 100, 0)
      [] id = "both" -> Atom(O_, "B", "MSE", "B", 8, 300, 200, 0)
      [] id = "other" -> Line("OTHER", 80, "LF", CA, " ", "ALA", "A", 5, 0, 0, 0)
      [] id = "short" -> Line("ATOM", 40, "LF", CA, " ", "ALA", "A", 6, 0, 0, 0)
      [] id = "wide" -> Atom(N_, " ", "GLY", "A", 2, 24000, 24000, 24000)
      [] id = "wrap" -> Atom(N_, " ", "GLY", "A", 2, 528000, 634000, 819600)
      [] id = "far" -> Atom(N_, " ", "GLY", "A", 2, 999900, 999900, 999900)
      [] id = "A9999" -> Atom(CA, " ", "ALA", "A", 9999, 0, 0, 0)
      [] id = "Bneg" -> Atom(C_, " ", "ALA", "B", -5, 100, 0, 0)
      [] id = "B12" -> Atom(C_, " ", "ALA", "B", 12, 400, 0, 0)
      [] id = "Aneg" -> Atom(CA, " ", "ALA", "A", -5, 0, 0, 0)
      [] id = "lo" -> Atom(CA, " ", "ALA", "A", 1, 10, 0, 0)
      [] id = "hi" -> Atom(N_, " ", "GLY", "A", 2, 410, 0, 0)
      [] id = "row" -> Atom(C_, " ", "ALA", "A", 3, 10, 400, 0)
      [] id = "c54" -> Line("ATOM", 54, "LF", N_, " ", "GLY", "A", 2, 100, 0, 0)
      [] id = "c53" -> Line("ATOM", 53, "LF", C_, " ", "GLY", "A", 2, 200, 0, 0)
      [] id = "c54crlf" -> Line("ATOM", 54, "CRLF", O_, " ", "GLY", "A", 2, 300, 0, 0)
      [] id = "c52crlf" -> Line("ATOM", 52, "CRLF", CA, " ", "SER", "A", 3, 100, 100, 0)
      [] id = "c53eof" -> Line("ATOM", 53, "EOF", N_, " ", "SER", "A", 3, 200, 100, 0)

\* lines of a file without body
Alphabet == {"A1", "A2", "B1", "alt", "res", "both", "other", "short"}

SeqsUpTo(S, n) == UNION {[1..m -> S] : m \in 0..n}

\* the k-th atom of a packed body sits at x = 0 (k = 1), 3.99 or 4.00
PackedX(k) == IF k = 1 THEN 0 ELSE IF k % 2 = 0 THEN 399 ELSE 400

\* line k of a body of n residues of chain A, each residue its backbone N
\* and C, every atom but the first within 0.01 Angstrom of the others
PackedLine(k) ==
    Atom(IF k % 2 = 1 THEN N_ ELSE C_, " ", "ALA", "A", (k + 1) \div 2, PackedX(k), 0, 0)

\* the packed structures: 8, 9 and 10 residues, 9 residues followed by a
\* line that lowers the residue number (A5) or opens a chain (B1), and 15
\* residues, which put 16 atoms into the first cell
PackedFiles ==
    {[body |-> 8, tail |-> << >>], [body |-> 9, tail |-> << >>],
     [body |-> 9, tail |-> <<"A5">>], [body |-> 9, tail |-> <<"B1">>],
     [body |-> 10, tail |-> << >>], [body |-> 15, tail |-> << >>]}

\* two atoms spanning a bounding box of 61^3 = 226,981 cells (wide), of
\* 1321 * 1586 * 2050 = 2^32 + 4 cells (wrap) and of 2500^3 cells (far)
SpreadFiles ==
    {[body |-> 0, tail |-> <<"A1", "wide">>], [body |-> 0, tail |-> <<"A1", "wrap">>],
     [body |-> 0, tail |-> <<"A1", "far">>]}

\* chain changes: from residue 9999 of chain A to residue -5 of chain B,
\* and from the 9th residue of a packed chain A to residue 12 of chain B;
\* a first chain that opens with residue -5
ChainFiles ==
    {[body |-> 0, tail |-> <<"A9999", "Bneg">>], [body |-> 9, tail |-> <<"B12">>],
     [body |-> 0, tail |-> <<"Aneg", "A1">>]}

\* atoms whose x lies 4.00 apart, at 0.10 and 4.10, in one row of cells
\* and in two
EdgeFiles ==
    {[body |-> 0, tail |-> <<"lo", "hi">>], [body |-> 0, tail |-> <<"lo", "hi", "row">>]}

\* files without body of up to MaxLen lines, the packed structures, the
\* spread ones, the chain changes and the edge ones
Files ==
    {[body |-> 0, tail |-> t] : t \in SeqsUpTo(Alphabet, MaxLen)}
        \cup PackedFiles \cup SpreadFiles \cup ChainFiles \cup EdgeFiles

\* Config and build profile: both builds for the files without body (no
\* report is ever written for them), both report formats for the packed
\* bodies, which the release build runs
Configs(f) ==
    IF f.body = 0
    THEN [output_pdf : {FALSE}, overflow_checks : BOOLEAN]
    ELSE [output_pdf : BOOLEAN, overflow_checks : {FALSE}]

\* line k of a structure of two packed chains: lenA residues of chain A
\* numbered from firstA, then lenB residues of chain B numbered from
\* firstB and placed five cells away in y
TwoChainLine(f, k) ==
    LET r == (k + 1) \div 2
        an == IF k % 2 = 1 THEN N_ ELSE C_
    IN  IF r <= f.lenA
        THEN Atom(an, " ", "ALA", "A", f.firstA + r - 1, PackedX(k), 0, 0)
        ELSE Atom(an, " ", "ALA", "B", f.firstB + r - f.lenA - 1,
                  IF k % 2 = 0 THEN 399 ELSE 400, 2000, 0)

\* chain A 9990..9999 and chain B -11..-1: the chain offset of 10000 gives
\* the residues of chain B the numbers 9989..9999 again
TwoChainFiles ==
    {[body |-> 0, tail |-> << >>, firstA |-> 9990, lenA |-> 10, firstB |-> -11, lenB |-> 11]}

\* line k of a trace: residue k of chain A, its CA at (xs[k], ys[k], 0)
TraceLine(f, k) == Atom(CA, " ", "ALA", "A", k, f.xs[k], f.ys[k], 0)

\* eleven residues: eight at x = 4.08, the ninth at 12.58, the tenth at
\* 16.08 and the eleventh at x = 4.08 one cell up in y
TraceFiles ==
    {[body |-> 0, tail |-> << >>,
      xs |-> <<408, 408, 408, 408, 408, 408, 408, 408, 1258, 1608, 408>>,
      ys |-> <<0, 0, 0, 0, 0, 0, 0, 0, 0, 0, 400>>]}

FileLen(f) ==
    IF "lenA" \in DOMAIN f THEN 2 * (f.lenA + f.lenB)
    ELSE IF "xs" \in DOMAIN f THEN Len(f.xs)
    ELSE 2 * f.body + Len(f.tail)

LineAt(f, k) ==
    IF "lenA" \in DOMAIN f THEN TwoChainLine(f, k)
    ELSE IF "xs" \in DOMAIN f THEN TraceLine(f, k)
    ELSE IF k <= 2 * f.body THEN PackedLine(k) ELSE LineOf(f.tail[k - 2 * f.body])

(***************************************************************************)
(* Init: run has created the log and plot files and is about to read.      *)
(***************************************************************************)
NoGrid == [min |-> <<0, 0, 0>>, max |-> <<0, 0, 0>>, nbx |-> <<0, 0, 0>>, box_count |-> 0,
           overflow |-> FALSE, ibox_counts |-> << >>, ibox_atoms |-> << >>, panic |-> FALSE,
           tooMany |-> FALSE, over |-> {}, flag2 |-> FALSE]

NoStats == [stat |-> 0, pstat |-> 0, mtrxstat |-> 0, errat_len |-> 0, errat |-> << >>]

Init ==
    /\ file \in Files
    /\ config \in Configs(file)
    /\ pos = 0
    /\ pc = "parse"
    /\ i = 0
    /\ kadd = 0
    /\ flag2 = FALSE
    /\ data = EmptyData(FileLen(file) + 1)
    /\ log = << >>
    /\ grid = NoGrid
    /\ window_starts = << >>
    /\ results = << >>
    /\ ridx = 0
    /\ stats = NoStats
    /\ plot = "empty"
    /\ arg = << >>
    /\ ret = 0

computeVars == <<grid, window_starts, results, ridx, stats, plot>>
parseVars == <<i, kadd, flag2, data>>

(***************************************************************************)
(* parse_pdb: one pass of the read loop (lib.rs:352-479).                  *)
(***************************************************************************)
ReadLine ==
    /\ pc = "parse"
    /\ ~flag2
    /\ pos < FileLen(file)
    /\ pos' = pos + 1
    /\ LET L == LineAt(file, pos + 1)
       IN  IF BytesLen(L) < 6 \/ L.kind # "ATOM"
           THEN UNCHANGED <<pc, i, kadd, flag2, data, log>>
           ELSE IF TooManyAtoms(i)
           THEN /\ log' = Append(log, LogEntry("TooManyAtoms", 0, 0))
                /\ pc' = "build"
                /\ UNCHANGED <<i, kadd, flag2, data>>
           ELSE LET st == ParseAtomLine(L, i, kadd, data, config.overflow_checks)
                IN  /\ i' = st.i
                    /\ kadd' = st.kadd
                    /\ flag2' = st.flag2
                    /\ data' = st.data
                    /\ log' = log \o st.log
                    /\ pc' = IF st.panic THEN "panic" ELSE "parse"
    /\ UNCHANGED <<arg, ret, config, file, computeVars>>

\* the loop ends (end of file, or flag2) and parse_pdb returns Ok(AtomData)
ParseReturn ==
    /\ pc = "parse"
    /\ (flag2 \/ pos >= FileLen(file))
    /\ pc' = "build"
    /\ UNCHANGED <<arg, ret, config, file, pos, parseVars, log, computeVars>>

(***************************************************************************)
(* compute_errat up to the parallel map (lib.rs:965-1067).                 *)
(***************************************************************************)
BuildGrid ==
    /\ pc = "build"
    /\ IF data.atmnum = 0
       THEN /\ stats' = [NoStats EXCEPT !.errat = data.errat, !.errat_len = data.errat_len]
            /\ pc' = "report"
            /\ UNCHANGED <<grid, window_starts, results, log>>
       ELSE LET g == BuildGridOf(data)
                ws == WindowStarts(data)
            IN  IF (g.overflow /\ config.overflow_checks) \/ g.panic
                THEN \* the product overflows under overflow checks
                     \* (lib.rs:1021), or the fill loop indexes outside the
                     \* vectors (lib.rs:1040)
                     /\ log' = Append(log, LogEntry("MinMax", 0, 0))
                     /\ pc' = "panic"
                     /\ UNCHANGED <<grid, window_starts, results, stats>>
                ELSE /\ grid' = g
                     /\ stats' = [NoStats EXCEPT !.errat = data.errat,
                                                 !.errat_len = data.errat_len]
                     /\ log' = log \o <<LogEntry("MinMax", 0, 0)>>
                                \o (IF g.tooMany THEN <<LogEntry("TooManyBoxes", 0, 0)>>
                                    ELSE << >>)
                                \o (IF g.over # {} THEN <<LogEntry("TooManyAtomsInBox", 0, 0)>>
                                    ELSE << >>)
                     /\ window_starts' = IF g.flag2 THEN << >> ELSE ws
                     /\ results' = IF g.flag2 THEN << >> ELSE [k \in 1..Len(ws) |-> Pending]
                     /\ pc' = IF g.flag2 THEN "summary" ELSE "map"
    /\ UNCHANGED <<arg, ret, config, file, pos, parseVars, ridx, plot>>

(***************************************************************************)
(* The parallel map over window_starts (lib.rs:1069-1085).  compute_window *)
(* reads only the shared immutable data and returns its outcome, and       *)
(* collect() stores it at the position of its start: one step per window,  *)
(* taken by the workers in any order.                                      *)
(***************************************************************************)
\* faulty variant: a worker that finds a later position already stored
\* returns nothing
WindowResult_OrderDependent(k) ==
    IF \E j \in (k + 1)..Len(results) : results[j] # Pending
    THEN NoneOutcome
    ELSE compute_window(data, grid, window_starts[k])

\* the outcome a worker returns for position k
WindowResult(k) == compute_window(data, grid, window_starts[k])

EvaluateWindow(k) ==
    /\ pc = "map"
    /\ results[k] = Pending
    /\ results' = [results EXCEPT ![k] = WindowResult(k)]
    /\ UNCHANGED <<arg, ret, config, file, pos, pc, parseVars, log, grid, window_starts,
                   ridx, stats, plot>>

\* collect() returns once every position holds its outcome
Collect ==
    /\ pc = "map"
    /\ \A k \in 1..Len(results) : results[k] # Pending
    /\ pc' = "reduce"
    /\ ridx' = 1
    /\ UNCHANGED <<arg, ret, config, file, pos, parseVars, log, grid, window_starts,
                   results, stats, plot>>

(***************************************************************************)
(* The sequential reduction (lib.rs:1087-1114), one outcome per step.      *)
(***************************************************************************)
\* faulty variant: a score above LMT_99 is flagged twice
AddValue_Twice(st, o) ==
    LET flagged == (IF o.mtrx > LMT_99 THEN 1 ELSE 0) + (IF o.mtrx > LMT_95 THEN 1 ELSE 0)
    IN  [stat |-> st.stat + 1,
         pstat |-> st.pstat + flagged,
         mtrxstat |-> st.mtrxstat + o.mtrx,
         errat_len |-> IF o.idx >= st.errat_len THEN o.idx + 1 ELSE st.errat_len,
         errat |-> [k \in (DOMAIN st.errat) \cup {o.idx} |->
                      IF k = o.idx THEN o.mtrx ELSE st.errat[k]]]

\* stat, pstat, mtrxstat and errat after a Value outcome (lib.rs:1097-1111)
AddValue(st, o) ==
    LET flagged == IF o.mtrx > LMT_99 THEN 1 ELSE IF o.mtrx > LMT_95 THEN 1 ELSE 0
    IN  [stat |-> st.stat + 1,
         pstat |-> st.pstat + flagged,
         mtrxstat |-> st.mtrxstat + o.mtrx,
         errat_len |-> IF o.idx >= st.errat_len THEN o.idx + 1 ELSE st.errat_len,
         errat |-> [k \in (DOMAIN st.errat) \cup {o.idx} |->
                      IF k = o.idx THEN o.mtrx ELSE st.errat[k]]]

ReduceStep ==
    /\ pc = "reduce"
    /\ ridx <= Len(results)
    /\ LET o == results[ridx]
       IN  /\ stats' = IF o.kind = "Value" THEN AddValue(stats, o) ELSE stats
           /\ log' = IF o.kind = "Warn"
                     THEN Append(log, LogEntry("BelowMinimumInteraction", o.idx, 0))
                     ELSE log
    /\ ridx' = ridx + 1
    /\ UNCHANGED <<arg, ret, config, file, pos, pc, parseVars, grid, window_starts,
                   results, plot>>

ReduceDone ==
    /\ pc = "reduce"
    /\ ridx > Len(results)
    /\ pc' = "summary"
    /\ UNCHANGED <<arg, ret, config, file, pos, parseVars, log, computeVars>>

\* faulty variant: the share of the scored windows that are flagged
QualityFactor_FlaggedShare(st) == (1000000 * st.pstat) \div st.stat

\* 100.0 - (100.0 * pstat / stat), in 1/10000
QualityFactor(st) == 1000000 - (1000000 * st.pstat) \div st.stat

\* the summary and the return of compute_errat (lib.rs:1117-1141)
Summary ==
    /\ pc = "summary"
    /\ log' = IF stats.stat > 0
              THEN log \o <<LogEntry("TotalFrames", stats.stat, stats.pstat),
                            LogEntry("AvgProbability", stats.mtrxstat \div stats.stat, 0),
                            LogEntry("OverallQualityFactor", QualityFactor(stats), 0)>>
              ELSE log
    /\ pc' = "report"
    /\ UNCHANGED <<arg, ret, config, file, pos, parseVars, computeVars>>

\* faulty variant: the report is written whatever stat is
Report_Always ==
    /\ pc = "report"
    /\ plot' = IF config.output_pdf THEN "pdf" ELSE "ps"
    /\ pc' = "done"
    /\ UNCHANGED <<arg, ret, config, file, pos, parseVars, log, grid, window_starts,
                   results, ridx, stats>>

\* run (lib.rs:85-95): the report is written only when stat > 0
Report ==
    /\ pc = "report"
    /\ plot' = IF stats.stat > 0
               THEN (IF config.output_pdf THEN "pdf" ELSE "ps")
               ELSE plot
    /\ pc' = "done"
    /\ UNCHANGED <<arg, ret, config, file, pos, parseVars, log, grid, window_starts,
                   results, ridx, stats>>

Next ==
    \/ ReadLine
    \/ ParseReturn
    \/ BuildGrid
    \/ \E k \in 1..Len(results) : EvaluateWindow(k)
    \/ Collect
    \/ ReduceStep
    \/ ReduceDone
    \/ Summary
    \/ Report

Spec == Init /\ [][Next]_vars

(***************************************************************************)
(* The reduction and the summary on their own: compute_errat at            *)
(* lib.rs:1087 with the collected outcomes of up to MaxWindows window      *)
(* starts.  The reduction reads neither the file nor the atom arrays, so   *)
(* the scores are drawn from both sides of LMT_95 and LMT_99, which no     *)
(* structure of a few atoms reaches.                                       *)
(***************************************************************************)
\* a score below LMT_95, LMT_95 itself, one between LMT_95 and LMT_99, and
\* one above LMT_99
ScoreSamples == {52000, LMT_95, 140000, 250000}

\* the outcome at position k of results: its frame is that of window start k
OutcomeSamples(k) ==
    {NoneOutcome, Warn(k + 4)} \cup {Value(k + 4, m) : m \in ScoreSamples}

\* the sequences of m outcomes
RECURSIVE OutcomesOfLen(_)
OutcomesOfLen(m) ==
    IF m = 0 THEN {<< >>}
    ELSE {Append(r, o) : r \in OutcomesOfLen(m - 1), o \in OutcomeSamples(m)}

OutcomeSeqs == UNION {OutcomesOfLen(m) : m \in 0..MaxWindows}

InitAgg ==
    /\ file = [body |-> 0, tail |-> << >>]
    /\ config \in [output_pdf : BOOLEAN, overflow_checks : {FALSE}]
    /\ pos = 0
    /\ pc = "reduce"
    /\ i = 0
    /\ kadd = 0
    /\ flag2 = FALSE
    /\ data = EmptyData(1)
    /\ log = <<LogEntry("MinMax", 0, 0)>>
    /\ grid = NoGrid
    /\ results \in OutcomeSeqs
    /\ window_starts = [k \in 1..Len(results) |-> k]
    /\ ridx = 1
    /\ stats = [NoStats EXCEPT !.errat = data.errat, !.errat_len = data.errat_len]
    /\ plot = "empty"
    /\ arg = << >>
    /\ ret = 0

NextAgg ==
    \/ ReduceStep
    \/ ReduceDone
    \/ Summary
    \/ Report

SpecAgg == InitAgg /\ [][NextAgg]_vars

(***************************************************************************)
(* matrixdb on its own: a probability vector (1/10000) is scored.          *)
(***************************************************************************)
\* per component: zero, the mean, and a value above the mean
MatrixSamples(u) == {0, AVG[u], AVG[u] + 1500}

InitScore ==
    /\ file = [body |-> 0, tail |-> << >>]
    /\ config = [output_pdf |-> FALSE, overflow_checks |-> FALSE]
    /\ pos = 0
    /\ pc = "matrixdb"
    /\ i = 0
    /\ kadd = 0
    /\ flag2 = FALSE
    /\ data = EmptyData(1)
    /\ log = << >>
    /\ grid = NoGrid
    /\ window_starts = << >>
    /\ results = << >>
    /\ ridx = 0
    /\ stats = NoStats
    /\ plot = "empty"
    /\ arg \in {<<m1, m2, m3, m4, m5>> :
                    m1 \in MatrixSamples(1), m2 \in MatrixSamples(2),
                    m3 \in MatrixSamples(3), m4 \in MatrixSamples(4),
                    m5 \in MatrixSamples(5)}
    /\ ret = 0

CallMatrixdb ==
    /\ pc = "matrixdb"
    /\ ret' = matrixdb(arg)
    /\ pc' = "returned"
    /\ UNCHANGED <<arg, config, file, pos, parseVars, log, computeVars>>

NextScore == CallMatrixdb

SpecScore == InitScore /\ [][NextScore]_vars

(***************************************************************************)
(* run_batch on its own (main.rs:48-75).  `arg` holds the call's           *)
(* arguments: per item what errat::run does on it -- returns Ok(()),       *)
(* returns Err (an input that cannot be opened) or panics (the state       *)
(* pc = "panic" of Spec) -- and whether a thread count was given.          *)
(* `results` is the vector the parallel map collects, one position per     *)
(* item, and `ret` what run_batch has counted or returns.  The items are   *)
(* run by the pool's workers in any order; a panic in one closure is       *)
(* carried to the caller of the parallel map once the jobs already taken   *)
(* have ended, the jobs not yet taken being dropped.                       *)
(***************************************************************************)
MaxItems == 3

RunOutcomes == {"Ok", "Err", "Panic"}

Todo == "Todo"

BatchArgs ==
    {[items |-> it, threads |-> th] :
        it \in UNION {[1..m -> RunOutcomes] : m \in 0..MaxItems}, th \in {"None", "Some"}}

InitBatch ==
    /\ file = [body |-> 0, tail |-> << >>]
    /\ config = [output_pdf |-> FALSE, overflow_checks |-> FALSE]
    /\ pos = 0
    /\ pc = "batch_start"
    /\ i = 0
    /\ kadd = 0
    /\ flag2 = FALSE
    /\ data = EmptyData(1)
    /\ log = << >>
    /\ grid = NoGrid
    /\ window_starts = << >>
    /\ results = << >>
    /\ ridx = 0
    /\ stats = NoStats
    /\ plot = "empty"
    /\ arg \in BatchArgs
    /\ ret = [kind |-> "None", success |-> 0, errors |-> << >>]

batchFixed == <<arg, config, file, pos, parseVars, log, grid, window_starts, stats, plot>>

\* main.rs:56-63: the pool is built when a thread count was given, and
\* run_batch returns the builder's error if that fails
BuildPool ==
    /\ pc = "batch_start"
    /\ \/ /\ pc' = "batch_map"
          /\ results' = [k \in 1..Len(arg.items) |-> Todo]
          /\ UNCHANGED ret
       \/ /\ arg.threads = "Some"
          /\ pc' = "batch_returned"
          /\ ret' = [ret EXCEPT !.kind = "Err"]
          /\ UNCHANGED results
    /\ UNCHANGED <<batchFixed, ridx>>

\* item k can be taken by a worker
RunnableItem(k) == results[k] = Todo

\* main.rs:52: a worker runs errat::run on item k
RunItem(k) ==
    /\ pc = "batch_map"
    /\ RunnableItem(k)
    /\ results' = [results EXCEPT ![k] = arg.items[k]]
    /\ UNCHANGED <<batchFixed, ridx, ret, pc>>

\* a closure has panicked: the parallel map unwinds into run_batch's
\* caller, whatever the other items have done
BatchUnwind ==
    /\ pc = "batch_map"
    /\ \E k \in 1..Len(results) : results[k] = "Panic"
    /\ pc' = "batch_panic"
    /\ UNCHANGED <<batchFixed, results, ridx, ret>>

\* collect() returns the vector (main.rs:53)
BatchCollect ==
    /\ pc = "batch_map"
    /\ \A k \in 1..Len(results) : results[k] \in {"Ok", "Err"}
    /\ pc' = "batch_count"
    /\ ridx' = 1
    /\ UNCHANGED <<batchFixed, results, ret>>

\* main.rs:66-71: one result is counted
BatchCount ==
    /\ pc = "batch_count"
    /\ ridx <= Len(results)
    /\ ret' = IF results[ridx] = "Ok"
              THEN [ret EXCEPT !.success = @ + 1]
              ELSE [ret EXCEPT !.errors = Append(@, ridx)]
    /\ ridx' = ridx + 1
    /\ UNCHANGED <<batchFixed, results, pc>>

\* main.rs:74
BatchReturn ==
    /\ pc = "batch_count"
    /\ ridx > Len(results)
    /\ ret' = [ret EXCEPT !.kind = "Ok"]
    /\ pc' = "batch_returned"
    /\ UNCHANGED <<batchFixed, results, ridx>>

NextBatch ==
    \/ BuildPool
    \/ \E k \in 1..Len(results) : RunItem(k)
    \/ BatchUnwind
    \/ BatchCollect
    \/ BatchCount
    \/ BatchReturn

SpecBatch == InitBatch /\ [][NextBatch]_vars

(***************************************************************************)
(* The scoring of one window and its aggregation: the end of               *)
(* compute_window (lib.rs:942-962) on a drawn histogram, held in `arg`,    *)
(* followed by the reduction, the summary and the report.  The drawn       *)
(* totals lie below MAXWIN, on it (60.694 + 40 and 100.694 + 0) and above. *)
(***************************************************************************)
HistogramSamples ==
    {[q \in 0..3 |-> [r \in 0..3 |->
        IF q = 1 /\ r = 1 THEN c11
        ELSE IF q = 1 /\ r = 2 THEN c12
        ELSE IF q = 2 /\ r = 3 THEN c23
        ELSE IF q = 3 /\ r = 3 THEN c33
        ELSE IF q = 0 \/ r = 0 THEN c00
        ELSE 0]] :
        c11 \in {0, 30000, 60694, MAXWIN, MAXWIN + 1}, c12 \in {0, 40000},
        c23 \in {0, 1}, c33 \in {0, 30000}, c00 \in {0, 5000}}

InitWindow ==
    /\ file = [body |-> 0, tail |-> << >>]
    /\ config \in [output_pdf : BOOLEAN, overflow_checks : {FALSE}]
    /\ pos = 1
    /\ pc = "score"
    /\ i = 1
    /\ kadd = 0
    /\ flag2 = FALSE
    /\ data = [EmptyData(1) EXCEPT !.atmnum = 1, !.resnum = [@ EXCEPT ![1] = 1]]
    /\ log = <<LogEntry("MinMax", 0, 0)>>
    /\ grid = NoGrid
    /\ window_starts = <<1>>
    /\ results = <<Pending>>
    /\ ridx = 0
    /\ stats = [NoStats EXCEPT !.errat = data.errat, !.errat_len = data.errat_len]
    /\ plot = "empty"
    /\ arg \in HistogramSamples
    /\ ret = 0

\* lib.rs:942-962, and collect() of the single outcome
ScoreStep ==
    /\ pc = "score"
    /\ results' = <<ScoreWindow(data, window_starts[1], arg)>>
    /\ pc' = "reduce"
    /\ ridx' = 1
    /\ UNCHANGED <<arg, ret, config, file, pos, parseVars, log, grid, window_starts,
                   stats, plot>>

NextWindow ==
    \/ ScoreStep
    \/ ReduceStep
    \/ ReduceDone
    \/ Summary
    \/ Report

SpecWindow == InitWindow /\ [][NextWindow]_vars

(***************************************************************************)
(* The analysis on a pool of one worker thread (--threads 1): the parallel *)
(* map evaluates the window positions one after the other.  The structures *)
(* are the packed ones, the two-chain ones and the traces.                 *)
(***************************************************************************)
SerialFiles == PackedFiles \cup ChainFiles \cup TwoChainFiles \cup TraceFiles

InitSerial ==
    /\ file \in SerialFiles
    /\ config \in [output_pdf : BOOLEAN, overflow_checks : {FALSE}]
    /\ pos = 0
    /\ pc = "parse"
    /\ i = 0
    /\ kadd = 0
    /\ flag2 = FALSE
    /\ data = EmptyData(FileLen(file) + 1)
    /\ log = << >>
    /\ grid = NoGrid
    /\ window_starts = << >>
    /\ results = << >>
    /\ ridx = 0
    /\ stats = NoStats
    /\ plot = "empty"
    /\ arg = << >>
    /\ ret = 0

\* the single worker takes the first position not yet evaluated
EvaluateNext ==
    \E k \in 1..Len(results) :
        /\ \A j \in 1..(k - 1) : results[j] # Pending
        /\ EvaluateWindow(k)

NextSerial ==
    \/ ReadLine
    \/ ParseReturn
    \/ BuildGrid
    \/ EvaluateNext
    \/ Collect
    \/ ReduceStep
    \/ ReduceDone
    \/ Summary
    \/ Report

SpecSerial == InitSerial /\ [][NextSerial]_vars

(***************************************************************************)
(* The two readers of a PDB file side by side: parse_pdb on the lines      *)
(* read_line returns (the state of the run above) and parse_pdb_bytes on   *)
(* the mapped bytes (lib.rs:129-292), whose state is kept in ret.          *)
(***************************************************************************)
\* records of 52, 53 and 54 columns ended by LF, by CR LF or by the end of
\* the file
ReaderAlphabet == {"A1", "c54", "c53", "c54crlf", "c52crlf", "c53eof", "short", "other"}

MaxLines == 3

\* a line without terminator can only be the last one
ReaderFiles ==
    {[body |-> 0, tail |-> t] : t \in
        {u \in SeqsUpTo(ReaderAlphabet, MaxLines) :
            \A k \in 1..(Len(u) - 1) : LineOf(u[k]).eol # "EOF"}}

\* &bytes[start..end] without the '\n', and without a '\r' before it
\* (lib.rs:147-154)
StripEol(L) == [L EXCEPT !.eol = "EOF"]

InitReaders ==
    /\ file \in ReaderFiles
    /\ config \in [output_pdf : {FALSE}, overflow_checks : BOOLEAN]
    /\ pos = 0
    /\ pc = "parse"
    /\ i = 0
    /\ kadd = 0
    /\ flag2 = FALSE
    /\ data = EmptyData(FileLen(file) + 1)
    /\ log = << >>
    /\ grid = NoGrid
    /\ window_starts = << >>
    /\ results = << >>
    /\ ridx = 0
    /\ stats = NoStats
    /\ plot = "empty"
    /\ arg = << >>
    /\ ret = [pos |-> 0, pc |-> "parse", i |-> 0, kadd |-> 0, flag2 |-> FALSE,
              data |-> EmptyData(FileLen(file) + 1), log |-> << >>]

\* one pass of the loop of parse_pdb_bytes (lib.rs:146-277)
ReadLineMapped ==
    /\ ret.pc = "parse"
    /\ ~ret.flag2
    /\ ret.pos < FileLen(file)
    /\ LET L == StripEol(LineAt(file, ret.pos + 1))
       IN  IF BytesLen(L) < 6 \/ L.kind # "ATOM"
           THEN ret' = [ret EXCEPT !.pos = @ + 1]
           ELSE IF TooManyAtoms(ret.i)
           THEN ret' = [ret EXCEPT !.pos = @ + 1, !.pc = "build",
                                   !.log = Append(@, LogEntry("TooManyAtoms", 0, 0))]
           ELSE LET st == ParseAtomLine(L, ret.i, ret.kadd, ret.data, config.overflow_checks)
                IN  ret' = [pos |-> ret.pos + 1,
                            pc |-> IF st.panic THEN "panic" ELSE "parse",
                            i |-> st.i, kadd |-> st.kadd, flag2 |-> st.flag2,
                            data |-> st.data, log |-> ret.log \o st.log]
    /\ UNCHANGED <<arg, config, file, pos, pc, parseVars, log, computeVars>>

\* the loop ends and parse_pdb_bytes returns Ok(AtomData)
MappedReturn ==
    /\ ret.pc = "parse"
    /\ (ret.flag2 \/ ret.pos >= FileLen(file))
    /\ ret' = [ret EXCEPT !.pc = "build"]
    /\ UNCHANGED <<arg, config, file, pos, pc, parseVars, log, computeVars>>

NextReaders == ReadLine \/ ParseReturn \/ ReadLineMapped \/ MappedReturn

SpecReaders == InitReaders /\ [][NextReaders]_vars

(***************************************************************************)
(* Directory batch mode (main.rs:209-258): the input files are collected,  *)
(* each becomes a batch item, and the items run on the pool, each run      *)
(* holding its log and plot file open from start to end (lib.rs:70-96).    *)
(***************************************************************************)
\* the paths a directory may hold, in the order of inputs.sort()
DirPaths ==
    << [dir |-> "", stem |-> "a", ext |-> "cif"],
       [dir |-> "", stem |-> "a", ext |-> "pdb"],
       [dir |-> "", stem |-> "b", ext |-> "pdb"],
       [dir |-> "", stem |-> "b", ext |-> "txt"],
       [dir |-> "sub", stem |-> "a", ext |-> "pdb"],
       [dir |-> "sub", stem |-> "c", ext |-> "pdb"] >>

is_structure_file(path) == path.ext \in {"pdb", "cif", "mmcif"}

\* collect_inputs (main.rs:28-46): the structure files of the directory,
\* of its subdirectories too when recursive, sorted
RECURSIVE collect_inputs(_, _, _)
collect_inputs(entries, recursive, k) ==
    IF k > Len(DirPaths) THEN << >>
    ELSE LET path == DirPaths[k]
             taken == /\ path \in entries
                      /\ (path.dir = "" \/ recursive)
                      /\ is_structure_file(path)
         IN  (IF taken THEN <<path>> ELSE << >>) \o collect_inputs(entries, recursive, k + 1)

\* resolve_paths with input_pdb and output_dir set (lib.rs:295-314); the
\* batch leaves output_pdf off
resolve_paths(input_pdb) ==
    [pdb |-> input_pdb,
     logf |-> [dir |-> "out", stem |-> input_pdb.stem, ext |-> "logf"],
     plot |-> [dir |-> "out", stem |-> input_pdb.stem, ext |-> "ps"]]

InitDir ==
    /\ arg \in [entries : SUBSET {DirPaths[k] : k \in 1..Len(DirPaths)}, recursive : BOOLEAN]
    /\ pc = "collect"
    /\ results = << >>
    /\ ret = [running |-> {}, finished |-> {}]
    /\ file = [body |-> 0, tail |-> << >>]
    /\ config = [output_pdf |-> FALSE, overflow_checks |-> FALSE]
    /\ pos = 0
    /\ i = 0
    /\ kadd = 0
    /\ flag2 = FALSE
    /\ data = EmptyData(1)
    /\ log = << >>
    /\ grid = NoGrid
    /\ window_starts = << >>
    /\ ridx = 0
    /\ stats = NoStats
    /\ plot = "empty"

\* main: collect_inputs, exit(1) on an empty list, else one item per input
CollectInputs ==
    /\ pc = "collect"
    /\ LET inputs == collect_inputs(arg.entries, arg.recursive, 1)
       IN  /\ results' = [k \in 1..Len(inputs) |-> resolve_paths(inputs[k])]
           /\ pc' = IF inputs = << >> THEN "exit" ELSE "batch"
    /\ UNCHANGED <<arg, ret, config, file, pos, parseVars, log, grid, window_starts,
                   ridx, stats, plot>>

\* a worker starts errat::run for item k: File::create of its log and plot
StartRun(k) ==
    /\ pc = "batch"
    /\ k \notin ret.running \cup ret.finished
    /\ ret' = [ret EXCEPT !.running = @ \cup {k}]
    /\ UNCHANGED <<arg, config, file, pos, pc, parseVars, log, computeVars>>

\* errat::run of item k returns and its files are closed
EndRun(k) ==
    /\ pc = "batch"
    /\ k \in ret.running
    /\ ret' = [running |-> ret.running \ {k}, finished |-> ret.finished \cup {k}]
    /\ UNCHANGED <<arg, config, file, pos, pc, parseVars, log, computeVars>>

NextDir ==
    \/ CollectInputs
    \/ \E k \in 1..Len(results) : StartRun(k)
    \/ \E k \in 1..Len(results) : EndRun(k)

SpecDir == InitDir /\ [][NextDir]_vars

(***************************************************************************)
(* Vocabulary of the properties.                                           *)
(***************************************************************************)
\* the summary printed an overall quality factor
QualityLogged == \E k \in 1..Len(log) : log[k].tag = "OverallQualityFactor"

\* position k of the map yielded a window (a score or a warning)
Produced(k) == results[k].kind \in {"Warn", "Value"}

\* some slot of the error profile holds a score
ProfileScored == \E k \in DOMAIN stats.errat : stats.errat[k] # 0

\* number of residues (runs of equal residue number) of the atoms a..b
ResidueRuns(d, a, b) == 1 + Cardinality({v \in a..(b - 1) : d.resnum[v + 1] # d.resnum[v]})

\* last atom of the chain of atom i0
ChainEnd(d, i0) ==
    CHOOSE v \in i0..d.atmnum :
        /\ \A u \in i0..v : d.chain_id[u] = d.chain_id[i0]
        /\ v = d.atmnum \/ d.chain_id[v + 1] # d.chain_id[i0]

\* the global residue numbers of the retained atoms
Residues(d) == {d.resnum[k] : k \in 1..d.atmnum}

\* the residues of chain number c
ResiduesOfChain(d, c) == {r \in Residues(d) : r \div CHAINDIF = c}

(***************************************************************************)
(* C1 (as stated): once ingestion has met a residue number lower than the  *)
(* previous one of the same chain, no window is produced, the              *)
(* scored-window count stays 0, no overall quality factor is printed and   *)
(* no slot of the error profile receives a score.                          *)
(***************************************************************************)
C1_DecreaseAbortsAnalysis ==
    flag2 => /\ \A k \in 1..Len(results) : ~Produced(k)
             /\ stats.stat = 0
             /\ ~QualityLogged
             /\ ~ProfileScored

C3_ShortChainsNoReport ==
    (/\ pc = "done"
     /\ \A k \in 1..data.atmnum :
           Cardinality(ResiduesOfChain(data, data.resnum[k] \div CHAINDIF)) < 10)
        => (stats.stat = 0 /\ ~QualityLogged /\ plot = "empty")

(***************************************************************************)
(* C3 (amended): when the structure has fewer than 9 retained residues in  *)
(* all, the run ends with a scored-window count of 0, no overall quality   *)
(* factor and nothing written by the report writer.                        *)
(***************************************************************************)
C3_FewResiduesNoReport ==
    (pc = "done" /\ Cardinality(Residues(data)) < 9)
        => (stats.stat = 0 /\ ~QualityLogged /\ plot = "empty")

\* a run over a structure of 8 residues has ended
C3_Witness ==
    /\ pc = "done"
    /\ Cardinality(Residues(data)) = 8
    /\ Len(results) = 8
    /\ stats.stat = 0
    /\ plot = "empty"

(***************************************************************************)
(* C4: whatever the order in which the workers completed their windows,    *)
(* the error profile, the scored-window count, the flagged count and the   *)
(* score sum of a finished run are those of one sequential pass over the   *)
(* window starts in atom order.                                            *)
(***************************************************************************)
\* stat, pstat, mtrxstat and errat after a sequential pass over the first k
\* window starts
RECURSIVE SequentialPass(_, _, _, _)
SequentialPass(d, g, ws, k) ==
    IF k = 0
    THEN [NoStats EXCEPT !.errat = d.errat, !.errat_len = d.errat_len]
    ELSE LET st == SequentialPass(d, g, ws, k - 1)
             o == compute_window(d, g, ws[k])
         IN  IF o.kind = "Value" THEN AddValue(st, o) ELSE st

C4_OrderIndependent ==
    pc = "done" => stats = SequentialPass(data, grid, window_starts, Len(window_starts))

\* a later window has been scored while an earlier one is still pending
C4_Witness ==
    /\ pc = "map"
    /\ \E j, k \in 1..Len(results) :
          j < k /\ results[j] = Pending /\ results[k].kind = "Value"

(***************************************************************************)
(* C5: in every valid window, a probe and a neighbour that are both        *)
(* backbone-flagged, within the cutoff, one the Carbon of residue r and    *)
(* the other the Nitrogen of residue r + 1, add nothing to the histogram,  *)
(* whichever of them is the probe and wherever the neighbour lies.         *)
(***************************************************************************)
\* a is the backbone Carbon of a residue and b the backbone Nitrogen of the next
CarbonThenNitrogen(d, a, b) ==
    /\ d.bnam[a] = 1 /\ d.bnam[b] = 1
    /\ d.name[a] = 1 /\ d.name[b] = 2
    /\ d.resnum[b] = d.resnum[a] + 1

WithinCutoff(d, a, b) == DistSq(d, a, b) < RADIUS * RADIUS

C5_PeptidePairsAddNothing ==
    pc = "reduce" =>
        \A k \in 1..Len(window_starts) :
            LET i0 == window_starts[k]
                v == WindowEnd(data, i0)[2]
            IN  WindowValid(data, i0) =>
                    \A a \in i0..v, b \in 1..data.atmnum :
                        (/\ WithinCutoff(data, a, b)
                         /\ CarbonThenNitrogen(data, a, b) \/ CarbonThenNitrogen(data, b, a))
                            => Contribution(data, i0, v, a, b) = 0

\* a valid window has a Carbon probing the Nitrogen of the next residue
\* beyond the window's end, and a Nitrogen probing the Carbon before it
C5_Witness ==
    /\ pc = "reduce"
    /\ \E k \in 1..Len(window_starts) :
          LET i0 == window_starts[k]
              v == WindowEnd(data, i0)[2]
          IN  /\ results[k].kind = "Value"
              /\ \E a \in i0..v, b \in (v + 1)..data.atmnum :
                    WithinCutoff(data, a, b) /\ CarbonThenNitrogen(data, a, b)
              /\ \E a \in i0..v, b \in i0..v :
                    WithinCutoff(data, a, b) /\ CarbonThenNitrogen(data, b, a)

(***************************************************************************)
(* C6: after the aggregation of a sequence of outcomes with at least one   *)
(* score, the overall quality factor printed is 100 - 100 * (scored        *)
(* windows whose score exceeds LMT_95) / (scored windows).                 *)
(***************************************************************************)
\* positions of results that hold a score
Scored == {k \in 1..Len(results) : results[k].kind = "Value"}

\* scored positions whose score exceeds the 95% limit
Above95 == {k \in Scored : results[k].mtrx > LMT_95}

\* quality factors printed to the log (1/10000 of a percent)
QualityFactorsLogged == {log[k].a : k \in {u \in 1..Len(log) : log[u].tag = "OverallQualityFactor"}}

C6_QualityFactor ==
    (pc \in {"report", "done"} /\ Scored # {})
        => QualityFactorsLogged
               = {1000000 - (1000000 * Cardinality(Above95)) \div Cardinality(Scored)}

\* four scored windows, one of them above the limit: 75 percent
C6_Witness ==
    /\ pc = "done"
    /\ Cardinality(Scored) = 4
    /\ Cardinality(Above95) = 1
    /\ QualityFactorsLogged = {750000}

(***************************************************************************)
(* C7: a step of the reduction raises the flagged count by exactly 1 when  *)
(* the outcome is a score above LMT_95 (above LMT_99 included) and leaves  *)
(* it alone otherwise; the flagged count never exceeds the scored count.   *)
(***************************************************************************)
C7_FlaggedOncePerScore ==
    /\ [][(pc = "reduce" /\ ridx <= Len(results))
             => stats'.pstat = stats.pstat
                    + (IF results[ridx].kind = "Value" /\ results[ridx].mtrx > LMT_95
                       THEN 1 ELSE 0)]_vars
    /\ [](stats.pstat <= stats.stat)

\* the reduction has just taken a score above LMT_99 after one between the
\* two limits
C7_Witness ==
    /\ pc = "reduce"
    /\ ridx = 3
    /\ results[1].kind = "Value" /\ results[1].mtrx > LMT_95 /\ results[1].mtrx <= LMT_99
    /\ results[2].kind = "Value" /\ results[2].mtrx > LMT_99
    /\ stats.pstat = 2
    /\ stats.stat = 2

(***************************************************************************)
(* C8: matrixdb of the empirical mean vector is zero.                      *)
(***************************************************************************)
C8_ZeroAtMean == (pc = "returned" /\ arg = AVG) => ret = 0

\* matrixdb has returned for the mean vector
C8_Witness == pc = "returned" /\ arg = AVG /\ ret = 0

(***************************************************************************)
(* C9 (as stated): when ingestion has read the whole file, the retained    *)
(* atoms are, in file order, the well-formed ATOM records with an allowed  *)
(* alternate location and a standard residue name; a rejected record       *)
(* leaves the atoms retained before it and their count as they were.       *)
(***************************************************************************)
\* an ATOM record long enough to hold its coordinates
WellFormed(L) == L.kind = "ATOM" /\ BytesLen(L) >= 54

Retainable(L) ==
    WellFormed(L) /\ AltLocAllowed(L.altLoc) /\ is_standard_residue(L.resName)

\* the records of the first n lines that are to be retained
RetainableLines(f, n) == SelectSeq([k \in 1..n |-> LineAt(f, k)], Retainable)

C9_RetainedIsFiltered ==
    (pc = "build" /\ ~flag2) =>
        LET E == RetainableLines(file, pos)
        IN  /\ data.atmnum = Len(E)
            /\ \A k \in 1..Len(E) :
                  /\ data.name[k] = NameClass(E[k].atomName)
                  /\ data.bnam[k] = BackboneFlag(E[k].atomName)
                  /\ data.chain_id[k] = E[k].chain
                  /\ data.res_seq[k] = E[k].resSeq
                  /\ data.xyz_x[k] = E[k].x
                  /\ data.xyz_y[k] = E[k].y
                  /\ data.xyz_z[k] = E[k].z

(***************************************************************************)
(* C10 (as stated): when ingestion has read the whole file, every retained *)
(* atom has global residue number = local residue number + chainIndex *    *)
(* CHAINDIF, chainIndex being the number of chain-identifier changes       *)
(* between consecutive retained atoms up to it.                            *)
(***************************************************************************)
\* chain-identifier changes between consecutive atoms among the first k
ChainChanges(d, k) == Cardinality({j \in 2..k : d.chain_id[j] # d.chain_id[j - 1]})

C10_GlobalResidueNumber ==
    (pc = "build" /\ ~flag2) =>
        \A k \in 1..data.atmnum :
            data.resnum[k] = data.res_seq[k] + ChainChanges(data, k) * CHAINDIF

(***************************************************************************)
(* What run hands back to its caller (lib.rs:70-96).  The only Err run can *)
(* return is an I/O error passed up by `?`; the file system is taken to    *)
(* work, so a run that reaches its last line returns Ok(()), and a run     *)
(* that panicked returns nothing.                                          *)
(***************************************************************************)
RunResult == IF pc = "done" THEN "Ok" ELSE IF pc = "panic" THEN "Panic" ELSE "Running"

\* the log holds one of the four fatal messages
FatalTags == {"TooManyAtoms", "ResnumDecrease", "TooManyBoxes", "TooManyAtomsInBox"}

FatalLogged == \E k \in 1..Len(log) : log[k].tag \in FatalTags

(***************************************************************************)
(* C11 (as stated): a run that has met a fatal condition (atom ceiling,    *)
(* too many grid cells, a cell over capacity, a residue-number decrease)   *)
(* does not return Ok to its caller, so that run_batch, which counts       *)
(* exactly the Ok results as successes, lists it among the failures.       *)
(***************************************************************************)
C11_FatalReturnsFailure == (FatalLogged /\ RunResult # "Running") => RunResult # "Ok"

(***************************************************************************)
(* C13: when the fill loop has counted more than 15 atoms in some cell,    *)
(* the analysis goes from the capacity check straight to its end: the map  *)
(* over the window starts is never entered, no window is evaluated (so the *)
(* truncated cell is never read for a contact count), the scored-window    *)
(* count is 0 and the error profile is the one ingestion left.             *)
(***************************************************************************)
C13_OverCapacityRejected ==
    grid.over # {} =>
        /\ pc \in {"summary", "report", "done"}
        /\ window_starts = << >>
        /\ results = << >>
        /\ stats.stat = 0
        /\ stats.errat = data.errat

\* a finished run whose first cell was truncated to 15 of its atoms, on a
\* structure whose first window would have been scored from that grid
C13_Witness ==
    /\ pc = "done"
    /\ \E c \in grid.over : Len(grid.ibox_atoms[c]) = box_slots
    /\ compute_window(data, grid, 1).kind = "Value"

(***************************************************************************)
(* C14 (as stated): when the product of the three per-axis cell counts     *)
(* exceeds BXMX - 1, no atom is assigned to a cell, no window is           *)
(* evaluated, the scored-window count stays 0 and no overall quality       *)
(* factor is printed.                                                      *)
(***************************************************************************)
\* nbx[1] * nbx[2] * nbx[3] > BXMX - 1, as a product of integers
ExceedsCeiling(nbx) ==
    LET p == nbx[1] * nbx[2]
    IN  p > BXMX - 1 \/ p * nbx[3] > BXMX - 1

C14_TooManyCellsRejected ==
    ExceedsCeiling(grid.nbx) =>
        /\ \A c \in DOMAIN grid.ibox_atoms : grid.ibox_atoms[c] = << >>
        /\ window_starts = << >>
        /\ results = << >>
        /\ stats.stat = 0
        /\ ~QualityLogged

(***************************************************************************)
(* C15 (as stated): once the parallel map over the batch has started,      *)
(* run_batch ends only by returning, with an outcome for every item and    *)
(* successes + failures = number of items; the outcome of an item is what  *)
(* its own run yields, whatever the other items did.                       *)
(***************************************************************************)
C15_OneOutcomePerItem ==
    /\ pc \in {"batch_count", "batch_returned", "batch_panic"} /\ results # << >> =>
          \A k \in 1..Len(results) : results[k] = arg.items[k]
    /\ pc \in {"batch_returned", "batch_panic"} /\ ret.kind # "Err" =>
          /\ pc = "batch_returned"
          /\ ret.success + Len(ret.errors) = Len(arg.items)

(***************************************************************************)
(* C16: a report writer is invoked only by run's last step, after          *)
(* compute_errat has aggregated and returned, only with a scored-window    *)
(* count above zero, and at most once; a finished run with a count of zero *)
(* has printed no summary line and no quality factor and has invoked no    *)
(* writer, and a finished run with a count above zero has invoked exactly  *)
(* one of write_ps and write_pdf.                                          *)
(***************************************************************************)
\* the summary printed one of its lines
SummaryLogged ==
    \E k \in 1..Len(log) :
        log[k].tag \in {"TotalFrames", "AvgProbability", "OverallQualityFactor"}

C16_ReportFollowsCount ==
    /\ [][plot' # plot =>
            /\ pc = "report" /\ pc' = "done"
            /\ plot = "empty" /\ plot' \in {"ps", "pdf"}
            /\ stats.stat > 0 /\ stats' = stats]_vars
    /\ [](pc = "done" =>
            /\ stats.stat = 0 => (~SummaryLogged /\ plot = "empty")
            /\ stats.stat > 0 => plot \in {"ps", "pdf"})

\* a finished run that scored windows and wrote its report as PDF
C16_Witness == pc = "done" /\ stats.stat > 0 /\ QualityLogged /\ plot = "pdf"

(***************************************************************************)
(* C17 (as stated): a job-mode run (report format PostScript) on an input  *)
(* with at least one retained atom ends by returning Ok, with a non-empty  *)
(* log and with errat.ps beside it, whether or not a window was scored.    *)
(***************************************************************************)
\* the plot file run creates in the job folder (lib.rs:79, 325-330)
PlotFile == IF config.output_pdf THEN "errat.pdf" ELSE "errat.ps"

C17_JobModeSucceeds ==
    (RunResult # "Running" /\ ~config.output_pdf /\ data.atmnum >= 1) =>
        /\ RunResult = "Ok"
        /\ log # << >>
        /\ PlotFile = "errat.ps"

(***************************************************************************)
(* C18 (as stated): when ingestion hands the atoms to compute_errat        *)
(* without having signalled a residue-number decrease, the global residue  *)
(* number never decreases from one retained atom to the next, whether or   *)
(* not the two atoms are of the same chain.                                *)
(***************************************************************************)
C18_ResnumNonDecreasing ==
    (pc = "build" /\ ~flag2) =>
        \A k \in 2..data.atmnum : data.resnum[k - 1] <= data.resnum[k]

(***************************************************************************)
(* C19 (as stated): for every start whose evaluation yielded a window, all *)
(* atoms from the start index to the window's end index have the chain     *)
(* identifier of the start atom.                                           *)
(***************************************************************************)
\* the atoms of the window that starts at atom i0: start index .. end index
WindowAtoms(d, i0) == i0..WindowEnd(d, i0)[2]

C19_WindowWithinChain ==
    \A k \in 1..Len(results) :
        Produced(k) =>
            \A u \in WindowAtoms(data, window_starts[k]) :
                data.chain_id[u] = data.chain_id[window_starts[k]]

(***************************************************************************)
(* C20 (as stated): for every start whose evaluation yielded a window, the *)
(* atoms from the start index to the end index carry exactly 10 distinct   *)
(* residue numbers.                                                        *)
(***************************************************************************)
\* the residue numbers carried by the atoms of the window starting at i0
WindowResidues(d, i0) == {d.resnum[u] : u \in WindowAtoms(d, i0)}

C20_TenResidueNumbers ==
    \A k \in 1..Len(results) :
        Produced(k) => Cardinality(WindowResidues(data, window_starts[k])) = 10

(***************************************************************************)
(* C20 (amended): the atoms of a valid window form 9 residues (runs of     *)
(* equal residue number) plus one for every change of residue number       *)
(* inside the window that the walk did not count (a difference outside     *)
(* 1..99, as at a chain change); when every change was counted they carry  *)
(* exactly 9 distinct residue numbers.  The tenth count of the walk is the *)
(* step out of the window, or the end of the atom sequence.                *)
(***************************************************************************)
\* changes of residue number inside the window that the walk did not count
UncountedSteps(d, i0) ==
    Cardinality({u \in WindowAtoms(d, i0) \ {WindowEnd(d, i0)[2]} :
                    /\ d.resnum[u + 1] # d.resnum[u]
                    /\ ~(d.resnum[u + 1] - d.resnum[u] < 100
                         /\ d.resnum[u + 1] - d.resnum[u] > 0)})

C20_NineResidues ==
    \A k \in 1..Len(results) :
        Produced(k) =>
            LET i0 == window_starts[k]
                v == WindowEnd(data, i0)[2]
            IN  /\ ResidueRuns(data, i0, v) = 9 + UncountedSteps(data, i0)
                /\ UncountedSteps(data, i0) = 0 =>
                      Cardinality(WindowResidues(data, i0)) = 9

\* a window that ends before the last atom was scored over 9 residue
\* numbers, and so was one that ends at the last atom
C20_Witness ==
    /\ \E k \in 1..Len(results) :
          /\ Produced(k)
          /\ WindowEnd(data, window_starts[k])[2] < data.atmnum
          /\ Cardinality(WindowResidues(data, window_starts[k])) = 9
    /\ \E k \in 1..Len(results) :
          /\ Produced(k)
          /\ WindowEnd(data, window_starts[k])[2] = data.atmnum

(***************************************************************************)
(* C21 (as stated): no window that was produced contains two consecutive   *)
(* atoms whose global residue numbers differ by 100 or more: the forward   *)
(* walk stops at such a gap.                                               *)
(***************************************************************************)
C21_WalkStopsAtGap ==
    \A k \in 1..Len(results) :
        Produced(k) =>
            \A u \in WindowAtoms(data, window_starts[k]) :
                u + 1 \in WindowAtoms(data, window_starts[k]) =>
                    data.resnum[u + 1] - data.resnum[u] < 100

(***************************************************************************)
(* C22: in every window that was produced, each eligible pair of a probe a *)
(* of the window and an atom b (different residue numbers, closer than     *)
(* RADIUS, not a peptide-bond pair) is met exactly once by the probe's     *)
(* cell scan; when b lies in the window too, the pair adds to the          *)
(* histogram from exactly one of its two probes, the one with the greater  *)
(* residue number, and when b lies outside it adds from a, its only probe. *)
(***************************************************************************)
\* a and b are atoms of different residue numbers closer than RADIUS that
\* are not a peptide-bond pair
Eligible(d, a, b) ==
    /\ d.resnum[a] # d.resnum[b]
    /\ DistSq(d, a, b) < RADIUS * RADIUS
    /\ ~PeptidePair(d, a, b)

\* how often the scan of probe a meets atom b
TimesMet(d, g, a, b) ==
    LET cands == Candidates(d, g, a)
    IN  Cardinality({j \in 1..Len(cands) : cands[j] = b})

\* the map has collected every outcome and the reduction has not begun
AllCollected == pc = "reduce" /\ ridx = 1

HistogramTotal(c) ==
    c[1][1] + c[1][2] + c[1][3] + c[2][1] + c[2][2] + c[2][3]
        + c[3][1] + c[3][2] + c[3][3]

C23_UnderSampledWarns ==
    /\ []((pc # "score" /\ HistogramTotal(arg) <= MAXWIN) => results[1].kind = "Warn")
    /\ []((pc # "score" /\ HistogramTotal(arg) > MAXWIN) => results[1].kind = "Value")
    /\ [][(pc = "reduce" /\ ridx <= Len(results) /\ results[ridx].kind = "Warn")
             => stats' = stats]_vars

\* a finished run whose only window had a total of exactly MAXWIN: a
\* warning in the log and nothing scored
C23_Witness ==
    /\ pc = "done"
    /\ HistogramTotal(arg) = MAXWIN
    /\ results[1].kind = "Warn"
    /\ \E k \in 1..Len(log) : log[k].tag = "BelowMinimumInteraction"
    /\ stats.stat = 0 /\ stats.errat = data.errat

\* C24: during aggregation every slot of the error profile is written at
\* most once: two scored windows of one structure never have the same slot
\* (residue number of the start + 4).
C24_SlotWrittenOnce ==
    \A j, k \in 1..Len(results) :
        (j # k /\ results[j].kind = "Value" /\ results[k].kind = "Value")
            => results[j].idx # results[k].idx

\* the coordinate of atom k on axis a
CoordOf(d, a, k) == IF a = 1 THEN d.xyz_x[k] ELSE IF a = 2 THEN d.xyz_y[k] ELSE d.xyz_z[k]

\* C25: when the grid is about to be built, every atom has on every axis a
\* cell coordinate in 0 .. count - 1, and on a grid that is filled its
\* linear cell index is one of 1 .. box_count and no access leaves the
\* vectors.
C25_AtomInsideGrid ==
    pc = "build" =>
        LET g == BuildGridOf(data)
        IN  /\ \A k \in 1..data.atmnum : \A a \in 1..3 :
                  CellCoord(CoordOf(data, a, k), g.min[a]) \in 0..(g.nbx[a] - 1)
            /\ ~g.tooMany =>
                  /\ ~g.panic
                  /\ \A k \in 1..data.atmnum :
                        CellIndex(data, g.min, g.nbx, k).value \in 1..g.box_count

\* the atoms within the cutoff of probe rer among the candidates the grid
\* yields, and among all atoms
NeighboursByGrid(d, g, rer) ==
    LET cands == Candidates(d, g, rer)
    IN  {cands[k] : k \in {j \in 1..Len(cands) : DistSq(d, rer, cands[j]) < RADIUS * RADIUS}}

NeighboursByScan(d, rer) ==
    {n \in 1..d.atmnum : DistSq(d, rer, n) < RADIUS * RADIUS}

\* C26: once the windows of a grid that passed the fatal checks are
\* evaluated, for every probe atom of every valid window no atom occurs
\* twice among its candidates, and the candidates within the cutoff are the
\* atoms a scan over all atoms finds within the cutoff.
C26_GridFindsAllNeighbours ==
    AllCollected =>
        \A k \in 1..Len(window_starts) :
            WindowValid(data, window_starts[k]) =>
                \A rer \in WindowAtoms(data, window_starts[k]) :
                    LET cands == Candidates(data, grid, rer)
                    IN  /\ \A a, b \in 1..Len(cands) : cands[a] = cands[b] => a = b
                        /\ NeighboursByGrid(data, grid, rer) = NeighboursByScan(data, rer)

\* both readers are through with the file
ReadersDone == pc \in {"build", "panic"} /\ ret.pc \in {"build", "panic"}

\* C27: when both readers are through with the same file, they ended the
\* same way, and if they returned they returned the same AtomData (atom
\* count, per-atom fields, error profile) and wrote the same log lines.
C27_ReadersAgree ==
    ReadersDone =>
        /\ pc = ret.pc
        /\ pc = "build" => (data = ret.data /\ log = ret.log)

\* C28: in directory batch mode, two items of the batch whose runs are
\* under way at the same time have different log paths and different plot
\* paths.
C28_DistinctOutputPaths ==
    pc = "batch" =>
        \A j, k \in ret.running :
            j # k => (results[j].logf # results[k].logf /\ results[j].plot # results[k].plot)

\* C29: for every retained atom the slot index (global residue number + 4)
\* is not negative and is a slot of the error profile that ingestion set,
\* and every window outcome carries a slot index that is not negative.
C29_SlotAddressable ==
    /\ \A k \in 1..data.atmnum :
          /\ data.resnum[k] + 4 >= 0
          /\ data.resnum[k] + 4 \in DOMAIN data.errat
    /\ \A k \in 1..Len(results) :
          results[k].kind \in {"Warn", "Value"} => results[k].idx >= 0

\* C30: when the grid is about to be built, the i32 product of the three
\* cell counts does not overflow, and a bounding box whose true number of
\* cells exceeds the ceiling is found to have too many cells.
C30_ProductDoesNotWrap ==
    (pc = "build" /\ data.atmnum > 0) =>
        LET g == BuildGridOf(data)
        IN  /\ ~g.overflow
            /\ ExceedsCeiling(g.nbx) => g.tooMany

====
